---- MODULE Spec2Model ----
(***************************************************************************)
(* A model of the playlist formatter: the run of main() over the index and *)
(* the unsorted pool (src/unnamed/part_000) and the Playlist / Channel     *)
(* normaliser and serialiser (src/scripts/parser.js).                      *)
(*                                                                         *)
(* JavaScript values are modelled as follows.                              *)
(*   - a string that the code only compares or copies is a TLA+ string;    *)
(*     a string the code splits, trims or matches (a title) is a sequence  *)
(*     of one-character strings;                                           *)
(*   - null / undefined of an optional number is the empty sequence and a  *)
(*     present number n is <<n>>;                                          *)
(*   - the value undefined of a whole playlist is the record Undefined;    *)
(*   - a plain object used as a dictionary ({}) is the set of the keys     *)
(*     under which a lookup does not give undefined, which for a fresh {}  *)
(*     is the set of property names inherited from Object.prototype.       *)
(***************************************************************************)
EXTENDS Integers, Sequences, FiniteSets, TLC

VARIABLES
  pc,            \* the stage of the promise chain that runs next
  config,        \* program.opts(): the flags epg and resolution
  files,         \* the disk: file name -> [tvgUrl, channels]
  playlists,     \* main's playlists (the filtered index)
  idx,           \* position of the for-loop of main in playlists
  playlist,      \* the value handed from one stage of the chain to the next
  globalBuffer,  \* the module-level globalBuffer
  loaded,        \* history: file name -> channels as loadPlaylist returned them
  saved,         \* history: the files savePlaylist has run to completion on
  epgSettled,    \* history: <<what utils.parseEPG settled to>> in the latest updateFromEPG
  trace,         \* history: the requests and pauses of detectResolution, in order
  k,             \* detectResolution: index of the channel of the for-loop
  results,       \* detectResolution: the local results
  inflight,      \* detectResolution: <<what the request in flight settles to>>
  response,      \* detectResolution: the local response, <<>> when undefined
  arg,           \* the argument a pure function is applied to
  ret            \* what it returned

vars == <<pc, config, files, playlists, idx, playlist, globalBuffer,
          loaded, saved, epgSettled, trace, k, results, inflight, response, arg, ret>>

mainVars == <<config, files, playlists, idx, playlist, globalBuffer,
              loaded, saved, epgSettled>>
probeVars == <<trace, k, results, inflight, response>>
funVars == <<arg, ret>>

(***************************************************************************)
(* Bounds of the model.                                                    *)
(***************************************************************************)
MaxChannels == 2      \* channels per playlist file in a run of main
MaxSource == 3        \* channels of the source playlist of the sort/dedupe pipeline

(***************************************************************************)
(* Generic helpers.                                                        *)
(***************************************************************************)
SeqsUpTo(S, n) == UNION {[1..m -> S] : m \in 0..n}

Range(s) == {s[i] : i \in DOMAIN s}

\* The urls of the source playlist of the sort / dedupe pipeline.
PipelineUrls == {"u1", "constructor"}

(***************************************************************************)
(* Strings that are compared: their order by UTF-16 code unit, as < and >  *)
(* on JavaScript strings give it.                                          *)
(***************************************************************************)
CodeUnitOrder == <<"A", "B", "C", "constructor", "u1", "u2">>

Rank(s) == CHOOSE i \in DOMAIN CodeUnitOrder : CodeUnitOrder[i] = s

StrLess(a, b) == Rank(a) < Rank(b)

(***************************************************************************)
(* The files of a run.                                                     *)
(***************************************************************************)
UnsortedUrl == "channels/unsorted.m3u"
IndexedUrls == <<"channels/aa.m3u", "channels/bb.m3u">>
AllUrls == Range(IndexedUrls) \cup {UnsortedUrl}

\* The items of index.m3u: the index lists the unsorted pool too.
IndexM3U ==
  <<[url |-> IndexedUrls[1]], [url |-> UnsortedUrl], [url |-> IndexedUrls[2]]>>

Undefined == [undefined |-> TRUE]

NoResolution == [width |-> <<>>, height |-> <<>>]

\* Property names every plain object inherits from Object.prototype: a lookup
\* obj[key] of one of them on a fresh {} is not undefined.
ObjectPrototypeKeys ==
  {"constructor", "toString", "valueOf", "hasOwnProperty", "isPrototypeOf",
   "propertyIsEnumerable", "toLocaleString", "__proto__",
   "__defineGetter__", "__defineSetter__", "__lookupGetter__", "__lookupSetter__"}

(***************************************************************************)
(* Playlists and channels of a run of main.  A file on disk is modelled by *)
(* what parser.parsePlaylist reads from it: the header attribute x-tvg-url *)
(* and the items, each already carrying the fields the stages of main read *)
(* or write (name, url, tvg.id, tvg.name, logo, languages, resolution).    *)
(* Channel's own parsing of a title and of the declared countries is       *)
(* modelled further down, character by character.                          *)
(***************************************************************************)
Item(name, url, id, tvgName, logo, languages) ==
  [name |-> name, url |-> url, tvg |-> [id |-> id, name |-> tvgName],
   logo |-> logo, languages |-> languages, resolution |-> NoResolution]

English == [code |-> "eng", name |-> "English"]

\* The items a playlist file of a run of main is made of.
RunPool ==
  { Item("B", "u1", "id1", "", "", <<>>),
    Item("A", "u2", "", "Name", "logo.png", <<English>>) }

\* The items of the source playlist of the sort / dedupe pipeline.
PipelinePool ==
  { Item(n, u, "", "", "", <<>>) : n \in {"C", "B", "A"}, u \in PipelineUrls }

RECURSIVE WithUrl(_)
\* Playlist's constructor, .filter(channel => channel.url)
WithUrl(items) ==
  IF items = <<>> THEN <<>>
  ELSE (IF Head(items).url # "" THEN <<Head(items)>> ELSE <<>>) \o WithUrl(Tail(items))

\* new Playlist({ header, items, url })
Playlist(header, items, url) ==
  [url |-> url, header |-> header, channels |-> WithUrl(items)]

\* parser.parsePlaylist(filename), on the disk d
ParsePlaylist(d, filename) ==
  Playlist([attrs |-> [xTvgUrl |-> d[filename].tvgUrl]], d[filename].items, filename)

\* utils.getBasename of a playlist url: "channels/aa.m3u" -> "aa"
Basename(url) ==
  CASE url = "channels/aa.m3u" -> "aa"
    [] url = "channels/bb.m3u" -> "bb"
    [] OTHER -> "unsorted"

RECURSIVE FilterPlaylists(_, _, _)
\* utils.filterPlaylists(playlists, country, exclude): with a country list only
\* the playlists of those countries are kept, with an exclude list those of
\* the listed countries are dropped.  The lists are sets of country codes here.
FilterPlaylists(items, country, exclude) ==
  IF items = <<>> THEN <<>>
  ELSE LET i == Head(items)
           keep == /\ (country = {} \/ Basename(i.url) \in country)
                   /\ Basename(i.url) \notin exclude
       IN (IF keep THEN <<i>> ELSE <<>>) \o FilterPlaylists(Tail(items), country, exclude)

RECURSIVE NotUnsorted(_)
\* .filter(i => i.url !== 'channels/unsorted.m3u')
NotUnsorted(items) ==
  IF items = <<>> THEN <<>>
  ELSE (IF Head(items).url # UnsortedUrl THEN <<Head(items)>> ELSE <<>>)
         \o NotUnsorted(Tail(items))

\* parseIndex()
ParseIndexItems(items, cfg) ==
  NotUnsorted(FilterPlaylists(items, cfg.country, cfg.exclude))

\* addToBuffer(playlist): the new value of globalBuffer
AddToBufferResult(pl, buffer) ==
  IF pl.url = UnsortedUrl THEN buffer ELSE buffer \o pl.channels

(***************************************************************************)
(* utils.sortBy(channels, ['name', 'url']): a stable sort by name, then by *)
(* url, both compared as strings.                                          *)
(***************************************************************************)
ChannelLess(a, b) ==
  \/ StrLess(a.name, b.name)
  \/ a.name = b.name /\ StrLess(a.url, b.url)

RECURSIVE InsertSorted(_, _)
\* c goes after every element that is not greater than it: insertion is stable
InsertSorted(sorted, c) ==
  IF sorted = <<>> THEN <<c>>
  ELSE IF ChannelLess(c, Head(sorted)) THEN <<c>> \o sorted
  ELSE <<Head(sorted)>> \o InsertSorted(Tail(sorted), c)

RECURSIVE SortBy(_)
SortBy(channels) ==
  IF channels = <<>> THEN <<>>
  ELSE InsertSorted(SortBy(SubSeq(channels, 1, Len(channels) - 1)),
                    channels[Len(channels)])

(***************************************************************************)
(* removeDuplicates: buffer is the plain object {} of line 88, the filter  *)
(* keeps a channel when typeof buffer[url] is 'undefined' and then sets    *)
(* buffer[url] = true.                                                     *)
(***************************************************************************)
RECURSIVE FilterSeen(_, _)
FilterSeen(channels, buffer) ==
  IF channels = <<>> THEN <<>>
  ELSE LET i == Head(channels)
           result == i.url \notin buffer
       IN (IF result THEN <<i>> ELSE <<>>)
            \o FilterSeen(Tail(channels), IF result THEN buffer \cup {i.url} ELSE buffer)

RECURSIVE Reverse(_)
Reverse(seq) == IF seq = <<>> THEN <<>> ELSE Reverse(Tail(seq)) \o <<Head(seq)>>

\* A removeDuplicates in which the last occurrence of a url wins.
RemoveDuplicatesKeepingLast(channels) ==
  Reverse(FilterSeen(Reverse(channels), ObjectPrototypeKeys))

RemoveDuplicatesChannels(channels) == FilterSeen(channels, ObjectPrototypeKeys)

RECURSIVE NotIn(_, _)
\* playlist.channels.filter(i => !urls.includes(i.url))
NotIn(channels, urls) ==
  IF channels = <<>> THEN <<>>
  ELSE (IF Head(channels).url \notin urls THEN <<Head(channels)>> ELSE <<>>)
         \o NotIn(Tail(channels), urls)

\* removeUnsortedDuplicates(playlist): the channels of the playlist it returns
RemoveUnsortedDuplicatesChannels(channels, buffer) ==
  LET urls == {buffer[i].url : i \in DOMAIN buffer}
      kept == NotIn(channels, urls)
  IN IF Len(kept) = Len(channels) THEN channels ELSE kept

(***************************************************************************)
(* The resolution probe.  A response body is the sequence of its lines: the*)
(* line #EXTM3U, a line holding a marker RESOLUTION=<width>x<height>, or   *)
(* any other line.                                                         *)
(***************************************************************************)
MaxLines == 2         \* lines of a probe response body
MaxBody == 3          \* lines of a body handed to parseResolution on its own

ExtM3U == [tag |-> "#EXTM3U"]
OtherLine == [tag |-> "other"]
Marker(w, h) == [tag |-> "RESOLUTION", width |-> w, height |-> h]

Markers == {Marker(1280, 720), Marker(1920, 1080), Marker(1280, 1080)}
Lines == {ExtM3U, OtherLine} \cup Markers
\* The bodies of the probe responses.
Bodies == SeqsUpTo({ExtM3U, OtherLine, Marker(1280, 720), Marker(1920, 1080)}, MaxLines)

RECURSIVE MatchAll(_)
\* Array.from(string.matchAll(/RESOLUTION=(\d+)x(\d+)/gm)).map(...): the
\* markers of the body, in the order of the body
MatchAll(body) ==
  IF body = <<>> THEN <<>>
  ELSE (IF Head(body).tag = "RESOLUTION"
          THEN <<[width |-> Head(body).width, height |-> Head(body).height]>>
          ELSE <<>>) \o MatchAll(Tail(body))

\* A callback that keeps the earlier of two variants of the same height.
ReduceStepKeepingEarlier(prev, current) ==
  IF prev.height >= current.height THEN prev ELSE current

\* the callback of arr.reduce
ReduceStep(prev, current) ==
  IF prev.height > current.height THEN prev ELSE current

RECURSIVE Reduce(_, _)
\* arr.reduce(callback) from the accumulator prev over the rest of the array
Reduce(prev, rest) ==
  IF rest = <<>> THEN prev ELSE Reduce(ReduceStep(prev, Head(rest)), Tail(rest))

\* parseResolution(string): <<>> is undefined, <<r>> the variant r
ParseResolution(body) ==
  LET arr == MatchAll(body)
  IN IF Len(arr) > 0 THEN <<Reduce(Head(arr), Tail(arr))>> ELSE <<>>

\* /^#EXTM3U/.test(response.data)
StartsWithExtM3U(body) == Len(body) > 0 /\ body[1] = ExtM3U

\* What instance.get(url) settles to.  axios rejects on a network failure, on
\* a timeout and on a status outside 2xx, and resolves with the status and the
\* body otherwise.
Rejections == {[rejected |-> TRUE, reason |-> r] : r \in {"network", "timeout", "status 404"}}
Resolutions == {[rejected |-> FALSE, status |-> st, data |-> b] : st \in {200, 204}, b \in Bodies}
Settled == Rejections \cup Resolutions

\* A loop body that does not look at response.status.
ProbedChannelAnyStatus(channel, resp) ==
  IF resp # <<>> /\ StartsWithExtM3U(resp[1].data)
    THEN LET resolution == ParseResolution(resp[1].data)
         IN IF resolution # <<>>
              THEN [channel EXCEPT !.resolution =
                      [width |-> <<resolution[1].width>>, height |-> <<resolution[1].height>>]]
              ELSE channel
    ELSE channel

\* The body of the for-loop of detectResolution after the await: channel as
\* it is pushed to results.  resp is <<>> (undefined, after the catch) or
\* <<r>> with r the response.
ProbedChannel(channel, resp) ==
  IF resp # <<>> /\ resp[1].status = 200 /\ StartsWithExtM3U(resp[1].data)
    THEN LET resolution == ParseResolution(resp[1].data)
         IN IF resolution # <<>>
              THEN [channel EXCEPT !.resolution =
                      [width |-> <<resolution[1].width>>, height |-> <<resolution[1].height>>]]
              ELSE channel
    ELSE channel

\* .then(utils.sleep(config.delay)).catch(err => {}): the value the await
\* gives for what the request settled to
Awaited(settled) == IF settled.rejected THEN <<>> ELSE <<settled>>

(***************************************************************************)
(* The EPG merge.  What utils.parseEPG(tvgUrl) settles to: a rejection, a  *)
(* falsy value, or an index [url, channels] whose channels maps a channel  *)
(* id to its guide entry [name: list of [value, lang], icon: list].        *)
(***************************************************************************)
EpgIds == {"id1"}
EpgItems ==
  { [name |-> n, icon |-> i] :
      n \in {<<>>, <<[value |-> "Guide", lang |-> ""]>>, <<[value |-> "Guide", lang |-> "French"]>>},
      i \in {<<>>, <<"icon.png">>} }
EpgIndexes == UNION {[ids -> EpgItems] : ids \in SUBSET EpgIds}
EpgSettled ==
  {[kind |-> "rejected"], [kind |-> "falsy"]} \cup {[kind |-> "epg", channels |-> c] : c \in EpgIndexes}

\* utils.language2code(name)
Language2Code(name) ==
  CASE name = "English" -> <<"eng">>
    [] name = "French" -> <<"fra">>
    [] OTHER -> <<>>

\* utils.parseLanguages(string) of a string without ';'
ParseLanguages(string) ==
  IF string # "" /\ Language2Code(string) # <<>>
    THEN <<[code |-> Language2Code(string)[1], name |-> string]>>
    ELSE <<>>

\* A merge that takes the guide's icon whether or not the channel has a logo.
MergedChannelOverwritingLogo(channel, epg) ==
  IF channel.tvg.id = "" THEN channel
  ELSE IF channel.tvg.id \notin DOMAIN epg.channels THEN channel
  ELSE
    LET epgItem == epg.channels[channel.tvg.id]
        c1 == IF channel.tvg.name = "" /\ Len(epgItem.name) > 0
                THEN [channel EXCEPT !.tvg.name = epgItem.name[1].value]
                ELSE channel
        c2 == IF Len(c1.languages) = 0 /\ Len(epgItem.name) > 0 /\ epgItem.name[1].lang # ""
                THEN [c1 EXCEPT !.languages = ParseLanguages(epgItem.name[1].lang)]
                ELSE c1
        c3 == IF Len(epgItem.icon) > 0
                THEN [c2 EXCEPT !.logo = epgItem.icon[1]]
                ELSE c2
    IN c3

\* the callback of playlist.channels.map in updateFromEPG, as the channel it
\* leaves behind
MergedChannel(channel, epg) ==
  IF channel.tvg.id = "" THEN channel
  ELSE IF channel.tvg.id \notin DOMAIN epg.channels THEN channel
  ELSE
    LET epgItem == epg.channels[channel.tvg.id]
        c1 == IF channel.tvg.name = "" /\ Len(epgItem.name) > 0
                THEN [channel EXCEPT !.tvg.name = epgItem.name[1].value]
                ELSE channel
        c2 == IF Len(c1.languages) = 0 /\ Len(epgItem.name) > 0 /\ epgItem.name[1].lang # ""
                THEN [c1 EXCEPT !.languages = ParseLanguages(epgItem.name[1].lang)]
                ELSE c1
        c3 == IF c2.logo = "" /\ Len(epgItem.icon) > 0
                THEN [c2 EXCEPT !.logo = epgItem.icon[1]]
                ELSE c2
    IN c3

\* updateFromEPG(playlist): the value its promise resolves to
UpdateFromEPGResult(pl, cfg, settled) ==
  IF ~cfg.epg THEN pl
  ELSE IF pl.header.attrs.xTvgUrl = "" THEN pl
  ELSE IF settled.kind = "rejected" THEN Undefined
  ELSE IF settled.kind = "falsy" THEN pl
  ELSE [pl EXCEPT !.channels = [i \in DOMAIN pl.channels |-> MergedChannel(pl.channels[i], settled)]]

(***************************************************************************)
(* The run of main().  pc names the stage of the promise chain that runs   *)
(* next; idx is the position of the for-loop in playlists, and             *)
(* idx = Len(playlists) + 1 is the pass over the unsorted pool.            *)
(***************************************************************************)
InUnsortedPass == idx > Len(playlists)

CurrentUrl == IF InUnsortedPass THEN UnsortedUrl ELSE playlists[idx].url

\* What the probes of a run of main settle to.
RunSettled ==
  { [rejected |-> TRUE, reason |-> "network"],
    [rejected |-> FALSE, status |-> 200, data |-> <<OtherLine>>],
    [rejected |-> FALSE, status |-> 200, data |-> <<ExtM3U, Marker(1280, 720)>>] }

\* detectResolution is not being stepped through
NoProbe ==
  trace = <<>> /\ k = 0 /\ results = <<>> /\ inflight = <<>> /\ response = <<>>

Idle == NoProbe /\ arg = <<>> /\ ret = <<>>

\* main is not running
NoRun ==
  /\ config = [epg |-> FALSE, resolution |-> FALSE, country |-> {}, exclude |-> {}]
  /\ files = [u \in {} |-> <<>>]
  /\ playlists = <<>>
  /\ idx = 0
  /\ playlist = Undefined
  /\ globalBuffer = <<>>
  /\ loaded = [u \in {} |-> <<>>]
  /\ saved = {}
  /\ epgSettled = <<>>

\* What utils.parseEPG settles to in a run of main.
RunEpgSettled ==
  { [kind |-> "rejected"], [kind |-> "falsy"],
    [kind |-> "epg",
     channels |-> [id \in EpgIds |->
        [name |-> <<[value |-> "Guide", lang |-> "French"]>>, icon |-> <<"icon.png">>]]] }

Configs ==
  [epg : BOOLEAN, resolution : BOOLEAN, country : {{}}, exclude : {{}, {"aa"}, {"aa", "bb"}}]

Init ==
  /\ pc = "parseIndex"
  /\ config \in Configs
  /\ files \in [AllUrls -> [tvgUrl : {"", "guide.xml"}, items : SeqsUpTo(RunPool, MaxChannels)]]
  /\ files[UnsortedUrl].tvgUrl = ""
  /\ playlists = <<>>
  /\ idx = 0
  /\ playlist = Undefined
  /\ globalBuffer = <<>>
  /\ loaded = [u \in {} |-> <<>>]
  /\ saved = {}
  /\ epgSettled = <<>>
  /\ Idle

\* main, line 32: const playlists = parseIndex(); the for-loop starts, or with
\* no playlist main goes to finish()
ParseIndex ==
  /\ pc = "parseIndex"
  /\ playlists' = ParseIndexItems(IndexM3U, config)
  /\ idx' = 1
  /\ pc' = IF Len(playlists') > 0 THEN "loadPlaylist" ELSE "finish"
  /\ UNCHANGED <<config, files, playlist, globalBuffer, loaded, saved, epgSettled, probeVars, funVars>>

\* loadPlaylist(url), lines 35 and 46
LoadPlaylist ==
  /\ pc = "loadPlaylist"
  /\ playlist' = ParsePlaylist(files, CurrentUrl)
  /\ loaded' = (CurrentUrl :> playlist'.channels) @@ loaded
  /\ pc' = IF InUnsortedPass THEN "removeUnsortedDuplicates" ELSE "addToBuffer"
  /\ UNCHANGED <<config, files, playlists, idx, globalBuffer, saved, epgSettled, probeVars, funVars>>

AddToBuffer ==
  /\ pc = "addToBuffer"
  /\ globalBuffer' = AddToBufferResult(playlist, globalBuffer)
  /\ pc' = "sortChannels"
  /\ UNCHANGED <<config, files, playlists, idx, playlist, loaded, saved, epgSettled, probeVars, funVars>>

SortChannels ==
  /\ pc = "sortChannels"
  /\ playlist' = [playlist EXCEPT !.channels = SortBy(playlist.channels)]
  /\ pc' = IF InUnsortedPass THEN "savePlaylist" ELSE "removeDuplicates"
  /\ UNCHANGED <<config, files, playlists, idx, globalBuffer, loaded, saved, epgSettled, probeVars, funVars>>

RemoveDuplicates ==
  /\ pc = "removeDuplicates"
  /\ playlist' = [playlist EXCEPT !.channels = RemoveDuplicatesChannels(playlist.channels)]
  /\ pc' = "detectResolution"
  /\ UNCHANGED <<config, files, playlists, idx, globalBuffer, loaded, saved, epgSettled, probeVars, funVars>>

\* detectResolution(playlist) as one stage of the chain: every channel probed
\* in turn, each probe settling one way or another
DetectResolution ==
  /\ pc = "detectResolution"
  /\ IF ~config.resolution
       THEN UNCHANGED playlist
       ELSE \E settled \in [DOMAIN playlist.channels -> RunSettled] :
              playlist' = [playlist EXCEPT !.channels =
                 [i \in DOMAIN playlist.channels |->
                    ProbedChannel(playlist.channels[i], Awaited(settled[i]))]]
  /\ pc' = "updateFromEPG"
  /\ UNCHANGED <<config, files, playlists, idx, globalBuffer, loaded, saved, epgSettled, probeVars, funVars>>

UpdateFromEPG ==
  /\ pc = "updateFromEPG"
  /\ IF config.epg /\ playlist.header.attrs.xTvgUrl # ""
       THEN \E settled \in RunEpgSettled :
              /\ playlist' = UpdateFromEPGResult(playlist, config, settled)
              /\ epgSettled' = <<settled>>
       ELSE /\ playlist' = UpdateFromEPGResult(playlist, config, [kind |-> "falsy"])
            /\ epgSettled' = <<>>
  /\ pc' = "savePlaylist"
  /\ UNCHANGED <<config, files, playlists, idx, globalBuffer, loaded, saved, probeVars, funVars>>

RemoveUnsortedDuplicates ==
  /\ pc = "removeUnsortedDuplicates"
  /\ playlist' = [playlist EXCEPT !.channels =
                    RemoveUnsortedDuplicatesChannels(playlist.channels, globalBuffer)]
  /\ pc' = "sortChannels"
  /\ UNCHANGED <<config, files, playlists, idx, globalBuffer, loaded, saved, epgSettled, probeVars, funVars>>

\* savePlaylist(playlist).  Reading playlist.url of undefined throws: the
\* chain rejects, done is skipped, the await of main throws and main's own
\* promise rejects, so nothing of main runs after it.  Otherwise the file
\* holds playlist.toString(true) afterwards, written or already equal.
SavePlaylist ==
  /\ pc = "savePlaylist"
  /\ IF playlist = Undefined
       THEN /\ pc' = "aborted"
            /\ UNCHANGED <<files, saved>>
       ELSE /\ files' = [files EXCEPT ![playlist.url] =
                           [tvgUrl |-> playlist.header.attrs.xTvgUrl, items |-> playlist.channels]]
            /\ saved' = saved \cup {playlist.url}
            /\ pc' = "done"
  /\ UNCHANGED <<config, playlists, idx, playlist, globalBuffer, loaded, epgSettled, probeVars, funVars>>

\* done(), then the next turn of the for-loop, the pass over the unsorted
\* pool (playlists.length is not 0 here), or finish()
Done ==
  /\ pc = "done"
  /\ IF InUnsortedPass
       THEN pc' = "finish" /\ UNCHANGED idx
       ELSE pc' = "loadPlaylist" /\ idx' = idx + 1
  /\ UNCHANGED <<config, files, playlists, playlist, globalBuffer, loaded, saved, epgSettled, probeVars, funVars>>

Finish ==
  /\ pc = "finish"
  /\ pc' = "finished"
  /\ UNCHANGED <<mainVars, probeVars, funVars>>

Next ==
  \/ ParseIndex
  \/ LoadPlaylist
  \/ AddToBuffer
  \/ SortChannels
  \/ RemoveDuplicates
  \/ DetectResolution
  \/ UpdateFromEPG
  \/ RemoveUnsortedDuplicates
  \/ SavePlaylist
  \/ Done
  \/ Finish

Spec == Init /\ [][Next]_vars

(***************************************************************************)
(* The sort / dedupe pipeline on one source playlist: the run of main with *)
(* the single indexed playlist channels/aa.m3u, probing and EPG merging    *)
(* off, and the source drawn from PipelinePool.                            *)
(***************************************************************************)
InitPipeline ==
  /\ pc = "parseIndex"
  /\ config = [epg |-> FALSE, resolution |-> FALSE, country |-> {}, exclude |-> {"bb"}]
  /\ \E source \in SeqsUpTo(PipelinePool, MaxSource) :
       files = [u \in AllUrls |->
                  [tvgUrl |-> "", items |-> IF u = IndexedUrls[1] THEN source ELSE <<>>]]
  /\ playlists = <<>>
  /\ idx = 0
  /\ playlist = Undefined
  /\ globalBuffer = <<>>
  /\ loaded = [u \in {} |-> <<>>]
  /\ saved = {}
  /\ epgSettled = <<>>
  /\ Idle

SpecPipeline == InitPipeline /\ [][Next]_vars

(***************************************************************************)
(* Claims about the run of main.                                           *)
(***************************************************************************)
RunEnded == pc \in {"finished", "aborted"}

Urls(channels) == {channels[i].url : i \in DOMAIN channels}

\* The urls of the channels loaded from the indexed playlists so far.
PlacedUrls ==
  UNION {Urls(loaded[u]) : u \in DOMAIN loaded \ {UnsortedUrl}}

\* C1: with EPG merging on and a guide url declared, a failure to load or
\* parse the guide makes updateFromEPG hand the playlist on unchanged, and the
\* run is never aborted: every playlist handed to savePlaylist is a playlist.
C1_EpgFailureNeverAborts ==
  /\ [][(pc = "updateFromEPG" /\ epgSettled' = <<[kind |-> "rejected"]>>)
          => playlist' = playlist]_vars
  /\ [](pc = "savePlaylist" => playlist # Undefined)
  /\ [](pc # "aborted")

\* C2: at the end of a run that processed at least one indexed playlist, no
\* channel of channels/unsorted.m3u has the url of a channel loaded from an
\* indexed playlist of the run.
C2_UnsortedPoolHoldsNoPlacedUrl ==
  (RunEnded /\ DOMAIN loaded \ {UnsortedUrl} # {})
    => Urls(files[UnsortedUrl].items) \cap PlacedUrls = {}

\* The same whenever the pass over the unsorted pool has saved it, and
\* globalBuffer then holds every channel loaded from an indexed playlist.
UnsortedPoolSavedWithoutPlacedUrl ==
  UnsortedUrl \in saved
    => /\ Urls(files[UnsortedUrl].items) \cap PlacedUrls = {}
       /\ Urls(globalBuffer) = PlacedUrls

UnsortedPoolFilteredAndSaved ==
  /\ pc = "finished"
  /\ UnsortedUrl \in saved
  /\ Len(files[UnsortedUrl].items) < Len(loaded[UnsortedUrl])
  /\ Len(files[UnsortedUrl].items) > 0

(***************************************************************************)
(* Claims about the sort / dedupe pipeline (SpecPipeline).                 *)
(***************************************************************************)
Source == loaded[IndexedUrls[1]]

AfterRemoveDuplicates == pc = "detectResolution" /\ ~InUnsortedPass

RECURSIVE OfUrl(_, _)
\* the channels of a list that have the url u, in the order of the list
OfUrl(channels, u) ==
  IF channels = <<>> THEN <<>>
  ELSE (IF Head(channels).url = u THEN <<Head(channels)>> ELSE <<>>)
         \o OfUrl(Tail(channels), u)

\* i and j are the two entries of the source with their url, and differ in name
TwoEntries(i, j) ==
  /\ i < j
  /\ Source[i].url = Source[j].url
  /\ Source[i].name # Source[j].name
  /\ \A m \in DOMAIN Source : Source[m].url = Source[i].url => m \in {i, j}

FirstSorted(i, j) ==
  IF StrLess(Source[j].name, Source[i].name) THEN Source[j] ELSE Source[i]

\* C8 as claimed: of two entries of the source playlist with the same url and
\* different names, sortChannels then removeDuplicates keep exactly the one
\* that comes first in the source playlist.
C8_FirstInSourceSurvives ==
  AfterRemoveDuplicates =>
    \A i, j \in DOMAIN Source :
      TwoEntries(i, j) => OfUrl(playlist.channels, Source[i].url) = <<Source[i]>>

\* C8 amended: of two such entries the pipeline never keeps both, and the one
\* it keeps is the one that comes first after sorting by (name, url), that is
\* the one with the lesser name, wherever it stood in the source; that entry is
\* kept unless removeDuplicates drops every channel of that url (a url that
\* names a property inherited from Object.prototype).
C8_FirstSortedSurvives ==
  AfterRemoveDuplicates =>
    \A i, j \in DOMAIN Source :
      TwoEntries(i, j) =>
        OfUrl(playlist.channels, Source[i].url) =
          IF Source[i].url \in ObjectPrototypeKeys THEN <<>> ELSE <<FirstSorted(i, j)>>

\* Two entries of one url, the later one with the lesser name, and the later
\* one is what the pipeline kept.
C8_LaterEntrySurvived ==
  /\ AfterRemoveDuplicates
  /\ \E i, j \in DOMAIN Source :
       /\ TwoEntries(i, j)
       /\ StrLess(Source[j].name, Source[i].name)
       /\ OfUrl(playlist.channels, Source[i].url) = <<Source[j]>>

(***************************************************************************)
(* detectResolution(playlist), one step per request, per handler of the    *)
(* awaited chain and per turn of the for-loop.  arg is the playlist it was *)
(* called with; ret lists, per channel probed, which of the cases of       *)
(* CaseOf the request ended in.                                            *)
(***************************************************************************)
MaxProbed == 2        \* channels of the playlist handed to detectResolution

Declared480 == [width |-> <<>>, height |-> <<480>>]

ProbePool ==
  { Item("A", "u1", "", "", "", <<>>),
    [Item("B", "u2", "", "", "", <<>>) EXCEPT !.resolution = Declared480] }

\* The cases a probe can end in.
CaseOf(s) ==
  IF s.rejected THEN s.reason
  ELSE IF s.status # 200 THEN "status not 200"
  ELSE IF ~StartsWithExtM3U(s.data) THEN "not a manifest"
  ELSE IF \A i \in DOMAIN s.data : s.data[i].tag # "RESOLUTION" THEN "manifest without markers"
  ELSE "manifest with markers"

InitProbe ==
  /\ pc = "detectResolution"
  /\ config \in [epg : {FALSE}, resolution : BOOLEAN, country : {{}}, exclude : {{}}]
  /\ \E channels \in SeqsUpTo(ProbePool, MaxProbed) :
       playlist = Playlist([attrs |-> [xTvgUrl |-> ""]], channels, IndexedUrls[1])
  /\ arg = playlist
  /\ ret = <<>>
  /\ trace = <<>> /\ k = 0 /\ results = <<>> /\ inflight = <<>> /\ response = <<>>
  /\ files = [u \in {} |-> <<>>]
  /\ playlists = <<>>
  /\ idx = 0
  /\ globalBuffer = <<>>
  /\ loaded = [u \in {} |-> <<>>]
  /\ saved = {}
  /\ epgSettled = <<>>

\* lines 104-108: the early return, or results = [] and the loop starts
ProbeEnter ==
  /\ pc = "detectResolution"
  /\ IF ~config.resolution
       THEN pc' = "returned" /\ UNCHANGED <<k, results>>
       ELSE pc' = "for" /\ k' = 1 /\ results' = <<>>
  /\ UNCHANGED <<mainVars, trace, inflight, response, funVars>>

\* lines 109-113: the next channel and its request instance.get(url), which
\* settles one way or another; after the last channel, lines 130-132
ProbeRequest ==
  /\ pc = "for"
  /\ IF k > Len(playlist.channels)
       THEN /\ playlist' = [playlist EXCEPT !.channels = results]
            /\ pc' = "returned"
            /\ UNCHANGED <<trace, inflight>>
       ELSE /\ trace' = Append(trace, [op |-> "get", url |-> playlist.channels[k].url])
            /\ \E s \in Settled : inflight' = <<s>>
            /\ pc' = "settled"
            /\ UNCHANGED playlist
  /\ UNCHANGED <<config, files, playlists, idx, globalBuffer, loaded, saved, epgSettled,
                 k, results, response, funVars>>

\* line 114, .then(utils.sleep(config.delay)): runs when the request
\* resolved, pauses and passes the response on
ProbeSleep ==
  /\ pc = "settled"
  /\ ~inflight[1].rejected
  /\ trace' = Append(trace, [op |-> "sleep"])
  /\ response' = Awaited(inflight[1])
  /\ ret' = Append(ret, CaseOf(inflight[1]))
  /\ pc' = "response"
  /\ UNCHANGED <<mainVars, k, results, inflight, arg>>

\* line 115, .catch(err => {}): runs when the request rejected
ProbeCatch ==
  /\ pc = "settled"
  /\ inflight[1].rejected
  /\ response' = Awaited(inflight[1])
  /\ ret' = Append(ret, CaseOf(inflight[1]))
  /\ pc' = "response"
  /\ UNCHANGED <<mainVars, trace, k, results, inflight, arg>>

\* lines 116-127: channel.resolution is assigned on the channel object, which
\* playlist.channels holds too, and the channel is pushed to results
ProbeHandle ==
  /\ pc = "response"
  /\ LET channel == ProbedChannel(playlist.channels[k], response)
     IN /\ playlist' = [playlist EXCEPT !.channels[k] = channel]
        /\ results' = Append(results, channel)
  /\ k' = k + 1
  /\ pc' = "for"
  /\ UNCHANGED <<config, files, playlists, idx, globalBuffer, loaded, saved, epgSettled,
                 trace, inflight, response, funVars>>

NextProbe ==
  \/ ProbeEnter
  \/ ProbeRequest
  \/ ProbeSleep
  \/ ProbeCatch
  \/ ProbeHandle

SpecProbe == InitProbe /\ [][NextProbe]_vars

(***************************************************************************)
(* Claims about detectResolution (SpecProbe).                              *)
(***************************************************************************)
Returned == pc = "returned"

SameButResolution(a, b) == [a EXCEPT !.resolution = b.resolution] = b

\* C9: whatever the probes end in, detectResolution returns the same channels
\* in the same order, none dropped or added, and the resolution of a channel
\* differs from its value before the probe only when its probe ended in a 200
\* manifest with RESOLUTION markers.
C9_ProbeOnlyChangesResolution ==
  Returned =>
    /\ Len(playlist.channels) = Len(arg.channels)
    /\ \A i \in DOMAIN arg.channels :
         /\ SameButResolution(arg.channels[i], playlist.channels[i])
         /\ config.resolution /\ ret[i] # "manifest with markers"
              => playlist.channels[i] = arg.channels[i]
         /\ ~config.resolution => playlist.channels[i] = arg.channels[i]

\* Two channels probed: the first probe failed or gave no manifest and left
\* the declared resolution, the second found markers and replaced it.
C9_SkippedThenDetected ==
  /\ Returned
  /\ Len(ret) = 2
  /\ ret[1] # "manifest with markers"
  /\ ret[2] = "manifest with markers"
  /\ playlist.channels[1] = arg.channels[1]
  /\ playlist.channels[2] # arg.channels[2]
  /\ arg.channels[2].resolution = Declared480

Gets == {i \in DOMAIN trace : trace[i].op = "get"}

\* C10: the requests are issued in channel order, each channel once, and a
\* pause lies between every two consecutive requests, whether the earlier
\* request succeeded or failed.
C10_PauseBetweenAllRequests ==
  (Returned /\ config.resolution) =>
    /\ Cardinality(Gets) = Len(arg.channels)
    /\ \A i \in Gets :
         trace[i].url = arg.channels[Cardinality({j \in Gets : j <= i})].url
    /\ \A i, j \in Gets :
         i < j => \E m \in DOMAIN trace : i < m /\ m < j /\ trace[m].op = "sleep"

\* The part of C10 the code keeps: channel order, one request per channel, and
\* a pause after exactly the requests that resolved.
RequestsInOrderPauseAfterResolved ==
  (Returned /\ config.resolution) =>
    /\ Cardinality(Gets) = Len(arg.channels)
    /\ \A i \in Gets :
         LET n == Cardinality({j \in Gets : j <= i})
         IN /\ trace[i].url = arg.channels[n].url
            /\ (i < Len(trace) /\ trace[i + 1].op = "sleep")
                 <=> ret[n] \notin {"network", "timeout", "status 404"}

(***************************************************************************)
(* parseResolution on its own: arg is the body, ret what it returns.       *)
(***************************************************************************)
InitResolution ==
  /\ pc = "parseResolution"
  /\ arg \in SeqsUpTo(Lines, MaxBody)
  /\ ret = <<>>
  /\ NoRun /\ NoProbe

CallParseResolution ==
  /\ pc = "parseResolution"
  /\ ret' = ParseResolution(arg)
  /\ pc' = "returned"
  /\ UNCHANGED <<mainVars, probeVars, arg>>

SpecResolution == InitResolution /\ [][CallParseResolution]_vars

MaxHeight(arr) == CHOOSE h \in {arr[i].height : i \in DOMAIN arr} :
                    \A i \in DOMAIN arr : arr[i].height <= h

Tallest(arr) == {i \in DOMAIN arr : arr[i].height = MaxHeight(arr)}

FirstOf(S) == CHOOSE i \in S : \A j \in S : i <= j
LastOf(S) == CHOOSE i \in S : \A j \in S : j <= i

\* C7 as claimed: for a body with at least one RESOLUTION marker,
\* parseResolution returns a variant of the greatest height, and among several
\* of that height the first one of the body.
C7_TallestFirstWins ==
  (Returned /\ MatchAll(arg) # <<>>) =>
    LET arr == MatchAll(arg)
    IN ret = <<arr[FirstOf(Tallest(arr))]>>

\* C7 amended: parseResolution returns a variant of the greatest height, and
\* among several of that height the last one of the body.
C7_TallestLastWins ==
  (Returned /\ MatchAll(arg) # <<>>) =>
    LET arr == MatchAll(arg)
    IN /\ ret # <<>>
       /\ ret[1].height = MaxHeight(arr)
       /\ ret = <<arr[LastOf(Tallest(arr))]>>

\* Two variants of the greatest height and different widths, and the later
\* one was returned.
C7_TieReturnedLast ==
  /\ Returned
  /\ MatchAll(arg) # <<>>
  /\ LET arr == MatchAll(arg)
     IN /\ Cardinality(Tallest(arr)) > 1
        /\ arr[FirstOf(Tallest(arr))] # arr[LastOf(Tallest(arr))]
        /\ ret = <<arr[LastOf(Tallest(arr))]>>

(***************************************************************************)
(* removeDuplicates on its own: arg is playlist.channels, ret lists what   *)
(* one call and then a second call on its result left in it.               *)
(***************************************************************************)
MaxList == 3          \* channels of the list handed to removeDuplicates

DedupePool ==
  { Item(n, u, "", "", "", <<>>) : n \in {"A", "B"}, u \in {"u1", "u2", "constructor"} }

InitDedupe ==
  /\ pc = "removeDuplicates"
  /\ arg \in SeqsUpTo(DedupePool, MaxList)
  /\ ret = <<>>
  /\ NoRun /\ NoProbe

CallRemoveDuplicates ==
  /\ pc = "removeDuplicates"
  /\ ret' = <<RemoveDuplicatesChannels(arg)>>
  /\ pc' = "removeDuplicates again"
  /\ UNCHANGED <<mainVars, probeVars, arg>>

CallRemoveDuplicatesAgain ==
  /\ pc = "removeDuplicates again"
  /\ ret' = Append(ret, RemoveDuplicatesChannels(ret[1]))
  /\ pc' = "returned"
  /\ UNCHANGED <<mainVars, probeVars, arg>>

NextDedupe == CallRemoveDuplicates \/ CallRemoveDuplicatesAgain

SpecDedupe == InitDedupe /\ [][NextDedupe]_vars

RECURSIVE FirstOccurrences(_, _)
\* the elements channels[i..] whose url no earlier element of channels has
FirstOccurrences(channels, i) ==
  IF i > Len(channels) THEN <<>>
  ELSE (IF \A j \in 1..(i - 1) : channels[j].url # channels[i].url
          THEN <<channels[i]>> ELSE <<>>) \o FirstOccurrences(channels, i + 1)

\* C3: removeDuplicates returns the first occurrence of each url, in the
\* order of the input, and a second application changes nothing.
C3_FirstOccurrencesIdempotent ==
  Returned =>
    /\ ret[1] = FirstOccurrences(arg, 1)
    /\ ret[2] = ret[1]

\* The part of C3 the code keeps: a second application changes nothing, and
\* what is returned is the first occurrence of each url that names no
\* property inherited from Object.prototype.
FirstOccurrencesOfOwnKeys ==
  Returned =>
    /\ ret[2] = ret[1]
    /\ ret[1] = FirstOccurrences(NotIn(arg, ObjectPrototypeKeys), 1)

(***************************************************************************)
(* updateFromEPG on its own: arg is the playlist and what utils.parseEPG   *)
(* settles to, ret the value the promise of updateFromEPG resolves to.     *)
(***************************************************************************)
MaxMerged == 1        \* channels of the playlist handed to updateFromEPG

EpgPool ==
  { Item("A", "u1", id, n, logo, l) :
      id \in {"", "id1", "id2"}, n \in {"", "Name"},
      logo \in {"", "logo.png"}, l \in {<<>>, <<English>>} }

InitEPG ==
  /\ pc = "updateFromEPG"
  /\ config \in [epg : BOOLEAN, resolution : {FALSE}, country : {{}}, exclude : {{}}]
  /\ \E channels \in SeqsUpTo(EpgPool, MaxMerged), tvgUrl \in {"", "guide.xml"},
        s \in EpgSettled :
       arg = [playlist |-> Playlist([attrs |-> [xTvgUrl |-> tvgUrl]], channels, IndexedUrls[1]),
              settled |-> s]
  /\ ret = <<>>
  /\ files = [u \in {} |-> <<>>]
  /\ playlists = <<>>
  /\ idx = 0
  /\ playlist = Undefined
  /\ globalBuffer = <<>>
  /\ loaded = [u \in {} |-> <<>>]
  /\ saved = {}
  /\ epgSettled = <<>>
  /\ NoProbe

CallUpdateFromEPG ==
  /\ pc = "updateFromEPG"
  /\ ret' = <<UpdateFromEPGResult(arg.playlist, config, arg.settled)>>
  /\ pc' = "returned"
  /\ UNCHANGED <<mainVars, probeVars, arg>>

SpecEPG == InitEPG /\ [][CallUpdateFromEPG]_vars

\* the merge ran: EPG merging is on, a guide url is declared and the guide
\* was loaded and parsed into an index
Merged ==
  /\ Returned
  /\ config.epg
  /\ arg.playlist.header.attrs.xTvgUrl # ""
  /\ arg.settled.kind = "epg"

MaxTokens == 3        \* tokens of a declared-country string

CountryTokens == {"", "US", "CA", "ZZ", "NORAM"}

\* utils.region2codes(region): the country codes of a region, none for a
\* token that names no region
Region2Codes(region) ==
  IF region = "NORAM" THEN <<"US", "CA">> ELSE <<>>

\* utils.code2name(code): <<>> when the lookup table has no such code
Code2Name(code) ==
  CASE code = "US" -> <<"United States">>
    [] code = "CA" -> <<"Canada">>
    [] OTHER -> <<>>

\* String.prototype.toLowerCase on a country code
ToLowerCase(code) ==
  CASE code = "US" -> "us"
    [] code = "CA" -> "ca"
    [] OTHER -> code

RECURSIVE PushMissing(_, _)
\* for (let code of codes) if (!acc.includes(code)) acc.push(code)
PushMissing(acc, codes) ==
  IF codes = <<>> THEN acc
  ELSE PushMissing(IF Head(codes) \in Range(acc) THEN acc ELSE Append(acc, Head(codes)),
                   Tail(codes))

\* the callback of reduce, lines 93-106
CollectCodes(acc, curr) ==
  LET codes == Region2Codes(curr)
  IN IF Len(codes) > 0 THEN PushMissing(acc, codes) ELSE Append(acc, curr)

RECURSIVE ReduceCodes(_, _)
ReduceCodes(acc, tokens) ==
  IF tokens = <<>> THEN acc
  ELSE ReduceCodes(CollectCodes(acc, Head(tokens)), Tail(tokens))

RECURSIVE NamedCodes(_)
\* .filter(code => code && utils.code2name(code))
NamedCodes(codes) ==
  IF codes = <<>> THEN <<>>
  ELSE (IF Head(codes) # "" /\ Code2Name(Head(codes)) # <<>> THEN <<Head(codes)>> ELSE <<>>)
         \o NamedCodes(Tail(codes))

\* parseCountries(string)
ParseCountries(tokens) ==
  LET arr == NamedCodes(ReduceCodes(<<>>, tokens))
  IN [i \in DOMAIN arr |-> [code |-> ToLowerCase(arr[i]), name |-> Code2Name(arr[i])[1]]]

InitCountries ==
  /\ pc = "parseCountries"
  /\ arg \in SeqsUpTo(CountryTokens, MaxTokens) \ {<<>>}
  /\ ret = <<>>
  /\ NoRun /\ NoProbe

CallParseCountries ==
  /\ pc = "parseCountries"
  /\ ret' = ParseCountries(arg)
  /\ pc' = "returned"
  /\ UNCHANGED <<mainVars, probeVars, arg>>

SpecCountries == InitCountries /\ [][CallParseCountries]_vars

\* C6: no two entries of the countries parseCountries returns have the same
\* code, whatever mix of region tokens and literal codes is declared.
C6_CountriesDistinct ==
  Returned => \A i, j \in DOMAIN ret : ret[i].code = ret[j].code => i = j

(***************************************************************************)
(* Channel.parseTitle and the title Channel.toString writes.  A title is   *)
(* the sequence of its characters.                                         *)
(***************************************************************************)
MaxWords == 4         \* words of a raw title

Digits == <<"0", "1", "2", "3", "4", "5", "6", "7", "8", "9">>

IsDigit(c) == \E d \in DOMAIN Digits : Digits[d] = c

DigitValue(c) == (CHOOSE d \in DOMAIN Digits : Digits[d] = c) - 1

RECURSIVE ParseInt(_)
\* parseInt of a run of decimal digits
ParseInt(digits) ==
  IF Len(digits) = 1 THEN DigitValue(digits[1])
  ELSE 10 * ParseInt(SubSeq(digits, 1, Len(digits) - 1)) + DigitValue(digits[Len(digits)])

RECURSIVE ToDigits(_)
\* `${n}` of a non-negative integer
ToDigits(n) ==
  IF n < 10 THEN <<Digits[n + 1]>>
  ELSE ToDigits(n \div 10) \o <<Digits[(n % 10) + 1]>>

RECURSIVE Trim(_)
\* String.prototype.trim
Trim(str) ==
  IF str = <<>> THEN <<>>
  ELSE IF Head(str) = " " THEN Trim(Tail(str))
  ELSE IF str[Len(str)] = " " THEN Trim(SubSeq(str, 1, Len(str) - 1))
  ELSE str

RECURSIVE Split(_)
\* str.split(' ')
Split(str) ==
  IF \A i \in DOMAIN str : str[i] # " " THEN <<str>>
  ELSE LET i == CHOOSE m \in DOMAIN str : str[m] = " " /\ \A n \in 1..(m - 1) : str[n] # " "
       IN <<SubSeq(str, 1, i - 1)>> \o Split(SubSeq(str, i + 1, Len(str)))

RECURSIVE Join(_)
\* parts.join(' ')
Join(parts) ==
  IF parts = <<>> THEN <<>>
  ELSE IF Len(parts) = 1 THEN parts[1]
  ELSE parts[1] \o <<" ">> \o Join(Tail(parts))

\* /\[|\]/i.test(str)
HasBracket(str) == \E i \in DOMAIN str : str[i] \in {"[", "]"}

RECURSIVE DigitRun(_, _)
\* the length of the longest run of digits of str that starts at i
DigitRun(str, i) ==
  IF i <= Len(str) /\ IsDigit(str[i]) THEN 1 + DigitRun(str, i + 1) ELSE 0

\* /\((\d+)P\)/i matches str at i
ResolutionAt(str, i) ==
  /\ str[i] = "("
  /\ LET n == DigitRun(str, i + 1)
     IN /\ n >= 1
        /\ i + n + 2 <= Len(str)
        /\ str[i + n + 1] \in {"P", "p"}
        /\ str[i + n + 2] = ")"

\* /\((\d+)P\)/i.test(str)
HasResolution(str) == \E i \in DOMAIN str : ResolutionAt(str, i)

\* title.match(/\((\d+)P\)/i): <<>> for no match, else <<group 1>> of the
\* leftmost match
ResolutionMatch(str) ==
  IF ~HasResolution(str) THEN <<>>
  ELSE LET i == CHOOSE m \in DOMAIN str :
                  ResolutionAt(str, m) /\ \A n \in 1..(m - 1) : ~ResolutionAt(str, n)
       IN <<SubSeq(str, i + 1, i + DigitRun(str, i + 1))>>

\* title.match(/\[(.*)\]/i): <<>> for no match, else <<group 1>>: from the
\* leftmost [ that has a ] after it to the last ] of the title
StatusMatch(str) ==
  LET opens == {i \in DOMAIN str : str[i] = "[" /\ \E j \in DOMAIN str : j > i /\ str[j] = "]"}
  IN IF opens = {} THEN <<>>
     ELSE LET i == CHOOSE m \in opens : \A n \in opens : m <= n
              j == CHOOSE m \in DOMAIN str : str[m] = "]" /\ \A n \in DOMAIN str : str[n] = "]" => n <= m
          IN <<SubSeq(str, i + 1, j - 1)>>

RECURSIVE NameTokens(_)
\* .map(s => s.trim()).filter(s => !/\[|\]/i.test(s) && !/\((\d+)P\)/i.test(s))
NameTokens(tokens) ==
  IF tokens = <<>> THEN <<>>
  ELSE LET t == Trim(Head(tokens))
       IN (IF ~HasBracket(t) /\ ~HasResolution(t) THEN <<t>> ELSE <<>>)
            \o NameTokens(Tail(tokens))

\* parseTitle(title); a null status or height is <<>>
ParseTitle(title) ==
  LET channelName == Join(NameTokens(Split(Trim(title))))
      streamStatus == StatusMatch(title)
      streamResolutionMatch == ResolutionMatch(title)
      streamResolutionHeight ==
        IF streamResolutionMatch # <<>> THEN <<ParseInt(streamResolutionMatch[1])>> ELSE <<>>
  IN [channelName |-> channelName, streamStatus |-> streamStatus,
      streamResolution |-> [width |-> <<>>, height |-> streamResolutionHeight]]

\* parseData: the fields of a Channel that come from the title
TitleFields(title) ==
  LET t == ParseTitle(title)
  IN [name |-> t.channelName, status |-> t.streamStatus, resolution |-> t.streamResolution]

\* toString, lines 179-187: the title after the comma of the #EXTINF line
TitleString(channel) ==
  channel.name
    \o (IF channel.resolution.height # <<>> /\ channel.resolution.height[1] # 0
          THEN <<" ", "(">> \o ToDigits(channel.resolution.height[1]) \o <<"p", ")">>
          ELSE <<>>)
    \o (IF channel.status # <<>> /\ channel.status[1] # <<>>
          THEN <<" ", "[">> \o channel.status[1] \o <<"]">>
          ELSE <<>>)

\* The words raw titles are made of: A, [X], [X, Y, Z] and (07P).
Words ==
  { <<"A">>, <<"[", "X", "]">>, <<"[", "X">>, <<"Y">>, <<"Z", "]">>,
    <<"(", "0", "7", "P", ")">> }

\* arg is a raw title; ret lists the channel normalised from it, the title
\* serialised from that channel, the channel parsed back from that title, and
\* the title serialised from it.
InitTitle ==
  /\ pc = "normalize"
  /\ \E ws \in SeqsUpTo(Words, MaxWords) : arg = Join(ws)
  /\ ret = <<>>
  /\ NoRun /\ NoProbe

Normalize ==
  /\ pc = "normalize"
  /\ ret' = <<TitleFields(arg)>>
  /\ pc' = "serialize"
  /\ UNCHANGED <<mainVars, probeVars, arg>>

Serialize ==
  /\ pc = "serialize"
  /\ ret' = Append(ret, TitleString(ret[1]))
  /\ pc' = "parse"
  /\ UNCHANGED <<mainVars, probeVars, arg>>

Reparse ==
  /\ pc = "parse"
  /\ ret' = Append(ret, TitleFields(ret[2]))
  /\ pc' = "serialize again"
  /\ UNCHANGED <<mainVars, probeVars, arg>>

Reserialize ==
  /\ pc = "serialize again"
  /\ ret' = Append(ret, TitleString(ret[3]))
  /\ pc' = "returned"
  /\ UNCHANGED <<mainVars, probeVars, arg>>

NextTitle == Normalize \/ Serialize \/ Reparse \/ Reserialize

SpecTitle == InitTitle /\ [][NextTitle]_vars

\* C5: the title serialised from a normalised channel, parsed back and
\* serialised again, is the same title.
C5_TitleRoundTrip ==
  Returned => ret[4] = ret[2]

\* The same for the channels whose status has at most two words.
TitleRoundTripShortStatus ==
  (Returned /\ (ret[1].status = <<>> \/ Len(Split(ret[1].status[1])) <= 2))
    => ret[4] = ret[2]

====
